---- MODULE Spec2Model ----
(***************************************************************************)
(* Model of scheduler.py: five periodic rule evaluators run by an          *)
(* APScheduler BlockingScheduler against a Firestore document store.       *)
(*                                                                         *)
(* Time is counted in whole minutes since 00:00 UTC of day 0.  A stored    *)
(* ISO-8601 timestamp string is the record [t |-> minute, z |-> suffix],   *)
(* z = TRUE for a string carrying the "Z" suffix and FALSE for a string    *)
(* without zone designator; Python None is NoneVal.  Collections are       *)
(* sequences of documents in document-id order (the order of stream()).    *)
(***************************************************************************)
EXTENDS Integers, Sequences, FiniteSets, TLC

VARIABLES
    now,            \* the wall clock (UTC), in minutes
    nextRun,        \* job -> next fire time computed by the job's trigger
    instances,      \* job -> start times (the local `now`) of its running invocations
    lastOutcome,    \* job -> how its latest finished invocation ended
    records,        \* what the query for open attendance records returned to the
                    \* running invocation of auto_clockout_expired_shifts
    agencySettings, shifts, attendance, employees, sites, licenses,
    systemAlerts    \* the systemAlerts collection, in creation order

vars == <<now, nextRun, instances, lastOutcome, records,
          agencySettings, shifts, attendance, employees, sites, licenses,
          systemAlerts>>

store == <<agencySettings, shifts, attendance, employees, sites, licenses>>

----------------------------------------------------------------------------
(* Bounds of the exploration *)

Horizon == 31          \* minutes of scheduler run time explored
MaxDuration == 1       \* minutes an invocation may take
MaxDays == 3           \* daily fire times explored by NextDaily

DayMinutes == 24 * 60
StartTime == DayMinutes + 6 * 60 + 50   \* the process starts at 06:50 of day 1

----------------------------------------------------------------------------
(* Python values *)

NoneVal == [none |-> TRUE]
NoneId == "None"
Ts(t, z) == [t |-> t, z |-> z]
IsTs(v) == "t" \in DOMAIN v

\* dict.get(key, default)
Get(d, k, default) == IF k \in DOMAIN d THEN d[k] ELSE default

\* doc.update(fields): the named fields are overwritten or added
Update(doc, fields) ==
    [k \in DOMAIN doc \cup DOMAIN fields |->
        IF k \in DOMAIN fields THEN fields[k] ELSE doc[k]]

\* now.isoformat() + "Z"
IsoformatZ(n) == Ts(n, TRUE)

\* a <= b on two ISO strings of the same layout: character order is time
\* order, and a string without the suffix is a proper prefix of the one
\* with it
StrLeq(a, b) == a.t < b.t \/ (a.t = b.t /\ (b.z \/ ~a.z))

\* datetime.fromisoformat(s.replace("Z", "+00:00")): aware iff s had the suffix
Fromisoformat(s) == [t |-> s.t, aware |-> s.z]

\* naive-now compared with / subtracted from a parsed datetime raises
\* TypeError when that one is offset-aware
RaisesTypeError(d) == d.aware

\* s[11:16] of an ISO string: "HH:MM"
Pad2(n) == IF n < 10 THEN "0" \o ToString(n) ELSE ToString(n)
HourMinute(s) == Pad2((s.t % DayMinutes) \div 60) \o ":" \o Pad2(s.t % 60)

\* `sub in message` for a message kept as the sequence of its parts
StrIn(sub, message) == \E i \in 1..Len(message) : message[i] = sub

RECURSIVE Concat(_)
Concat(ss) == IF ss = <<>> THEN <<>> ELSE Head(ss) \o Concat(Tail(ss))

\* collection.document(id).get(): the documents with that id (at most one)
DocsById(coll, id) == SelectSeq(coll, LAMBDA d : d.id = id)
Exists(coll, id) == DocsById(coll, id) # <<>>
Doc(coll, id) == Head(DocsById(coll, id))

----------------------------------------------------------------------------
(* create_system_alert.  about and run are history fields of the model:    *)
(* the document the alert was raised for and the local `now` of the        *)
(* invocation that raised it.                                              *)

\* mutant: the alert is created as read
create_system_alert_Read(agency_id, title, message, category, site_id, clock, about, run) ==
    [agencyId |-> agency_id, title |-> title, message |-> message,
     severity |-> "medium", category |-> category, siteId |-> site_id,
     timestamp |-> IsoformatZ(clock), read |-> TRUE,
     about |-> about, run |-> run]

create_system_alert(agency_id, title, message, category, site_id, clock, about, run) ==
    [agencyId |-> agency_id, title |-> title, message |-> message,
     severity |-> "medium", category |-> category, siteId |-> site_id,
     timestamp |-> IsoformatZ(clock), read |-> FALSE,
     about |-> about, run |-> run]

\* A write of an evaluator: an added alert or an update of a document
Add(alert) == [op |-> "add", coll |-> "systemAlerts", id |-> NoneId, doc |-> alert]
Upd(coll, id, fields) == [op |-> "update", coll |-> coll, id |-> id, doc |-> fields]

----------------------------------------------------------------------------
(* check_grace_violations *)

DefaultGrace == 5

\* stream() of a query with a range filter on shiftStart comes ordered by
\* shiftStart, ties in document order
RECURSIVE InsertByStart(_, _)
InsertByStart(d, sorted) ==
    IF sorted = <<>> THEN <<d>>
    ELSE IF StrLeq(Head(sorted).shiftStart, d.shiftStart)
         THEN <<Head(sorted)>> \o InsertByStart(d, Tail(sorted))
         ELSE <<d>> \o sorted

RECURSIVE SortByStart(_)
SortByStart(docs) ==
    IF docs = <<>> THEN <<>>
    ELSE InsertByStart(docs[Len(docs)], SortByStart(SubSeq(docs, 1, Len(docs) - 1)))

\* shifts of the agency started at or before the threshold
GraceShifts(agency_id, threshold_time) ==
    SortByStart(SelectSeq(shifts, LAMBDA d :
        /\ d.agencyId = agency_id
        /\ StrLeq(d.shiftStart, IsoformatZ(threshold_time))))

\* any(True for _ in attendance): a row of that shift and agency exists
ShiftAttendance(shift_id, agency_id) ==
    SelectSeq(attendance, LAMBDA a :
        Get(a, "shiftId", NoneId) = shift_id /\ a.agencyId = agency_id)

\* mutant: only a row with a non-null clockIn counts
AlreadyClockedIn_NonNullOnly(shift_id, agency_id) ==
    SelectSeq(ShiftAttendance(shift_id, agency_id), LAMBDA a : a.clockIn # NoneVal) # <<>>

AlreadyClockedIn(shift_id, agency_id) == ShiftAttendance(shift_id, agency_id) # <<>>

\* the late_clockin alerts of the agency and site created in the last
\* grace_minutes; alerts are the collection as this invocation sees it
RecentAlerts(alerts, agency_id, site_id, n, grace_minutes) ==
    SelectSeq(alerts, LAMBDA a :
        /\ a.agencyId = agency_id
        /\ a.category = "late_clockin"
        /\ a.siteId = site_id
        /\ StrLeq(IsoformatZ(n - grace_minutes), a.timestamp))

\* the for ... break of the duplicate check
Suppressed(alerts, shift, agency_id, n, grace_minutes) ==
    LET recent == RecentAlerts(alerts, agency_id, Get(shift, "siteId", NoneId),
                               n, grace_minutes)
    IN  \E i \in 1..Len(recent) : StrIn(shift.id, recent[i].message)

EmployeeName(emp_id) ==
    IF Exists(employees, emp_id) THEN Get(Doc(employees, emp_id), "name", NoneId)
    ELSE emp_id

GraceAlert(agency_id, shift, clock, n) ==
    create_system_alert(
        agency_id, "Clock-In Missed",
        <<"Employee ", EmployeeName(Get(shift, "employeeId", "")),
          " did not clock in for their shift starting at ",
          HourMinute(shift.shiftStart), ".">>,
        "late_clockin", Get(shift, "siteId", NoneId), clock, shift.id, n)

\* the loop over the shifts of one agency; acc holds the alerts this
\* invocation has created so far
RECURSIVE GraceShiftLoop(_, _, _, _, _, _)
GraceShiftLoop(ss, agency_id, grace_minutes, acc, n, clock) ==
    IF ss = <<>> THEN acc
    ELSE LET shift == Head(ss)
             emit == /\ ~AlreadyClockedIn(shift.id, agency_id)
                     /\ ~Suppressed(systemAlerts \o acc, shift, agency_id, n, grace_minutes)
         IN  GraceShiftLoop(Tail(ss), agency_id, grace_minutes,
                IF emit THEN Append(acc, GraceAlert(agency_id, shift, clock, n)) ELSE acc,
                n, clock)

\* mutant: another default
GraceMinutes_Default3(s) == Get(s, "clockInGracePeriod", 3)

GraceMinutes(s) == Get(s, "clockInGracePeriod", DefaultGrace)

\* the loop over the agencySettings documents
RECURSIVE GraceSettingsLoop(_, _, _, _)
GraceSettingsLoop(settings, acc, n, clock) ==
    IF settings = <<>> THEN acc
    ELSE LET s == Head(settings)
             grace_minutes == GraceMinutes(s)
         IN  GraceSettingsLoop(Tail(settings),
                IF grace_minutes = 0 THEN acc
                ELSE GraceShiftLoop(GraceShifts(s.id, n - grace_minutes), s.id,
                                    grace_minutes, acc, n, clock),
                n, clock)

\* the writes of one invocation started at n and executing at clock
GracePlan(n, clock) ==
    LET alerts == GraceSettingsLoop(agencySettings, <<>>, n, clock)
    IN  [writes |-> [i \in 1..Len(alerts) |-> Add(alerts[i])], outcome |-> "ok"]

----------------------------------------------------------------------------
(* Faults of the timestamp handling.  An evaluator's loop state is the     *)
(* record [writes, outcome]: the writes issued so far and "ok" or the name *)
(* of the exception that ended the invocation.                             *)

\* d[key].replace("Z", "+00:00") handed to datetime.fromisoformat
ParseFault(d, key) ==
    IF key \notin DOMAIN d THEN "KeyError"
    ELSE IF ~IsTs(d[key]) THEN (IF d[key] = NoneVal THEN "AttributeError" ELSE "ValueError")
    ELSE "ok"

\* parsing d[key] and then comparing it with, or subtracting it from, utcnow()
TimeFault(d, key) ==
    IF ParseFault(d, key) # "ok" THEN ParseFault(d, key)
    ELSE IF RaisesTypeError(Fromisoformat(d[key])) THEN "TypeError"
    ELSE "ok"

Start == [writes |-> <<>>, outcome |-> "ok"]
Raise(st, exc) == [st EXCEPT !.outcome = exc]
Write(st, ws) == [st EXCEPT !.writes = st.writes \o ws]

----------------------------------------------------------------------------
(* auto_clockout_expired_shifts *)

\* {s.id for s in settings if s.to_dict().get("autoClockOut", False)}
EnabledAgencies == {agencySettings[i].id : i \in
    {k \in 1..Len(agencySettings) : Get(agencySettings[k], "autoClockOut", FALSE)}}

\* mutant: the query lost its filter
OpenRecords_Unfiltered == attendance

\* .where("clockOut", "==", None): the field is present and null
OpenRecords ==
    SelectSeq(attendance, LAMBDA a : "clockOut" \in DOMAIN a /\ a.clockOut = NoneVal)

\* mutant: rounded to one decimal
HoursWorked_OneDecimal(minutes) == 10 * ((minutes + 3) \div 6)

\* round(seconds / 3600, 2) of a whole number of minutes, in hundredths of
\* an hour: 5m/3 rounded to the nearest integer (it is never a tie)
HoursWorked(minutes) == (5 * minutes + 1) \div 3

\* mutant: at the shift's end already
ShiftExpired_AtEnd(n, shift_end) == n >= shift_end.t

\* now > shift_end
ShiftExpired(n, shift_end) == n > shift_end.t

CloseAttendance(att, n) ==
    Upd("attendance", att.id,
        [clockOut |-> IsoformatZ(n),
         hoursWorked |-> HoursWorked(n - Fromisoformat(att.clockIn).t),
         updatedAt |-> IsoformatZ(n)])

\* mutant: the status is left as it was
CompleteShift_StatusKept(att, n) ==
    Upd("shifts", att.shiftId, [updatedAt |-> IsoformatZ(n)])

CompleteShift(att, n) ==
    Upd("shifts", att.shiftId, [status |-> "completed", updatedAt |-> IsoformatZ(n)])

ClockoutAlert(att, clock, n) ==
    Add(create_system_alert(
        att.agencyId, "Auto Clock-Out Executed",
        <<"Employee ", att.userId, " auto clocked out at shift end.">>,
        "auto_clockout", NoneId, clock, att.id, n))

\* the body of the loop for one attendance record
ClockoutRecord(st, att, n, clock) ==
    IF att.agencyId \notin EnabledAgencies \/ Get(att, "shiftId", NoneId) = NoneId
    THEN st
    ELSE IF ~Exists(shifts, att.shiftId) THEN st
    ELSE LET shift == Doc(shifts, att.shiftId) IN
         IF TimeFault(shift, "shiftEnd") # "ok" THEN Raise(st, TimeFault(shift, "shiftEnd"))
         ELSE IF ~ShiftExpired(n, Fromisoformat(shift.shiftEnd)) THEN st
         ELSE IF TimeFault(att, "clockIn") # "ok" THEN Raise(st, TimeFault(att, "clockIn"))
         ELSE Write(st, <<CloseAttendance(att, n), CompleteShift(att, n),
                          ClockoutAlert(att, clock, n)>>)

RECURSIVE ClockoutLoop(_, _, _, _)
ClockoutLoop(rest, st, n, clock) ==
    IF rest = <<>> \/ st.outcome # "ok" THEN st
    ELSE ClockoutLoop(Tail(rest), ClockoutRecord(st, Head(rest), n, clock), n, clock)

\* mutant: the loop reads the open records anew as it writes
ClockoutPlan_Requery(n, clock) == ClockoutLoop(OpenRecords, Start, n, clock)

\* the loop runs over the records the query returned
ClockoutPlan(n, clock) == ClockoutLoop(records, Start, n, clock)

----------------------------------------------------------------------------
(* send_activity_reminders *)

DefaultInterval == 30

\* {"30min": 30, "1hr": 60, "2hr": 120}.get(freq, 30)
Interval(freq) ==
    CASE freq = "30min" -> 30
      [] freq = "1hr" -> 60
      [] freq = "2hr" -> 120
      [] OTHER -> DefaultInterval

\* (now - last_seen).total_seconds() > minutes * 60
StaleBeyond(n, last_seen, minutes) == (n - last_seen.t) * 60 > minutes * 60

InactivityAlert(agency_id, e, freq, clock, n) ==
    Add(create_system_alert(
        agency_id, "Employee Inactivity",
        <<Get(e, "name", "An employee"), " inactive for ", freq, ".">>,
        "inactivity", NoneId, clock, e.id, n))

\* the body of the loop for one employee
ActivityEmployee(st, agency_id, freq, e, n, clock) ==
    IF "lastKnownLocation" \notin DOMAIN e THEN st
    ELSE IF e.lastKnownLocation = NoneVal THEN Raise(st, "AttributeError")
    ELSE LET loc == e.lastKnownLocation IN
         IF Get(loc, "updatedAt", NoneVal) = NoneVal THEN st
         ELSE IF TimeFault(loc, "updatedAt") # "ok" THEN Raise(st, TimeFault(loc, "updatedAt"))
         ELSE IF StaleBeyond(n, Fromisoformat(loc.updatedAt), Interval(freq))
              THEN Write(st, <<InactivityAlert(agency_id, e, freq, clock, n)>>)
              ELSE st

RECURSIVE ActivityEmployeeLoop(_, _, _, _, _, _)
ActivityEmployeeLoop(emps, st, agency_id, freq, n, clock) ==
    IF emps = <<>> \/ st.outcome # "ok" THEN st
    ELSE ActivityEmployeeLoop(Tail(emps),
            ActivityEmployee(st, agency_id, freq, Head(emps), n, clock),
            agency_id, freq, n, clock)

Frequency(config) == Get(config, "activityReportFrequency", "30min")

RECURSIVE ActivitySettingsLoop(_, _, _, _)
ActivitySettingsLoop(settings, st, n, clock) ==
    IF settings = <<>> \/ st.outcome # "ok" THEN st
    ELSE LET s == Head(settings)
             freq == Frequency(s)
             emps == SelectSeq(employees, LAMBDA e : Get(e, "agencyId", NoneId) = s.id)
         IN  ActivitySettingsLoop(Tail(settings),
                IF freq = "OFF" THEN st
                ELSE ActivityEmployeeLoop(emps, st, s.id, freq, n, clock),
                n, clock)

ActivityPlan(n, clock) == ActivitySettingsLoop(agencySettings, Start, n, clock)

----------------------------------------------------------------------------
(* detect_geofence_leaves *)

DefaultDelay == 10

\* Point(lng, lat) and the ring of Polygon([(c["lng"], c["lat"]) ...])
Pt(c) == [x |-> c.lng, y |-> c.lat]
Ring(coords) == [i \in 1..Len(coords) |-> Pt(coords[i])]
EdgeEnd(ring, i) == ring[(i % Len(ring)) + 1]

Min(a, b) == IF a <= b THEN a ELSE b
Max(a, b) == IF a >= b THEN a ELSE b
Cross(a, b, p) == (b.x - a.x) * (p.y - a.y) - (b.y - a.y) * (p.x - a.x)

OnSegment(p, a, b) ==
    /\ Cross(a, b, p) = 0
    /\ Min(a.x, b.x) <= p.x /\ p.x <= Max(a.x, b.x)
    /\ Min(a.y, b.y) <= p.y /\ p.y <= Max(a.y, b.y)

OnBoundary(ring, p) == \E i \in 1..Len(ring) : OnSegment(p, ring[i], EdgeEnd(ring, i))

\* the edge from a to b crosses the horizontal ray leaving p to the right
CrossesRay(p, a, b) ==
    /\ (a.y > p.y) # (b.y > p.y)
    /\ IF b.y > a.y
       THEN (p.x - a.x) * (b.y - a.y) < (p.y - a.y) * (b.x - a.x)
       ELSE (p.x - a.x) * (b.y - a.y) > (p.y - a.y) * (b.x - a.x)

InInterior(ring, p) ==
    /\ ~OnBoundary(ring, p)
    /\ Cardinality({i \in 1..Len(ring) : CrossesRay(p, ring[i], EdgeEnd(ring, i))}) % 2 = 1

\* polygon.contains(point): the point lies in the interior, the boundary
\* (edges and vertices) is not contained
Contains(ring, p) == InInterior(ring, p)

\* `not v` for a coordinate read with loc.get: missing, None or 0
Falsy(loc, key) == key \notin DOMAIN loc \/ loc[key] = 0

LeaveTime(agency_id) ==
    LET settings == IF Exists(agencySettings, agency_id)
                    THEN Doc(agencySettings, agency_id) ELSE [id |-> agency_id]
    IN  Get(settings, "geofenceTriggerDelay", DefaultDelay)

GeofenceAlert(e, site_id, leave_time, clock, n) ==
    Add(create_system_alert(
        Get(e, "agencyId", NoneId), "Geofence Violation",
        <<Get(e, "name", NoneId), " left site fence for over ", ToString(leave_time), " min.">>,
        "geofence_leave", site_id, clock, e.id, n))

\* the body of the loop for one employee
GeofenceEmployee(st, e, n, clock) ==
    LET site_id == Get(e, "assignedsiteID", NoneId)
        loc == Get(e, "lastKnownLocation", NoneVal)
    IN  IF site_id = NoneId \/ loc = NoneVal \/ Falsy(loc, "lat") \/ Falsy(loc, "lng")
        THEN st
        ELSE IF ~Exists(sites, site_id) THEN st
        ELSE LET coords == Get(Doc(sites, site_id), "coordinates", <<>>) IN
             IF Len(coords) < 3 THEN st
             ELSE IF Contains(Ring(coords), Pt(loc)) THEN st
             ELSE IF TimeFault(loc, "updatedAt") # "ok"
                  THEN Raise(st, TimeFault(loc, "updatedAt"))
             ELSE IF StaleBeyond(n, Fromisoformat(loc.updatedAt), LeaveTime(e.agencyId))
                  THEN Write(st, <<GeofenceAlert(e, site_id, LeaveTime(e.agencyId), clock, n)>>)
                  ELSE st

RECURSIVE GeofenceLoop(_, _, _, _)
GeofenceLoop(emps, st, n, clock) ==
    IF emps = <<>> \/ st.outcome # "ok" THEN st
    ELSE GeofenceLoop(Tail(emps), GeofenceEmployee(st, Head(emps), n, clock), n, clock)

GeofencePlan(n, clock) == GeofenceLoop(employees, Start, n, clock)

----------------------------------------------------------------------------
(* send_license_reminders *)

DefaultDays == 7

\* days_map.get(reminder, 7)
Days(reminder) ==
    CASE reminder = "1week" -> 7
      [] reminder = "2weeks" -> 14
      [] reminder = "1month" -> 30
      [] OTHER -> DefaultDays

Reminder(s) == Get(s, "licenseExpiryReminder", "1week")

\* (expiry - now).days: the whole days of the difference, rounded down
DaysUntil(expiry, n) == (expiry.t - n) \div DayMinutes

\* mutant: a license matches on every day within the threshold
ExpiryMatches_Within(expiry, n, days) == 0 <= DaysUntil(expiry, n) /\ DaysUntil(expiry, n) <= days

\* 0 <= (expiry - now).days == days
ExpiryMatches(expiry, n, days) == 0 <= DaysUntil(expiry, n) /\ DaysUntil(expiry, n) = days

LicenseAlert(agency_id, l, days, clock, n) ==
    Add(create_system_alert(
        agency_id, "License Expiry Reminder",
        <<"Employee ", l.employeeId, "'s license expires in ", ToString(days), " days.">>,
        "license", NoneId, clock, l.id, n))

\* the body of the loop for one license
LicenseRecord(st, agency_id, days, l, n, clock) ==
    IF Get(l, "agencyId", NoneId) # agency_id \/ Get(l, "expiryDate", NoneVal) = NoneVal
    THEN st
    ELSE IF TimeFault(l, "expiryDate") # "ok" THEN Raise(st, TimeFault(l, "expiryDate"))
    ELSE IF ExpiryMatches(Fromisoformat(l.expiryDate), n, days)
         THEN Write(st, <<LicenseAlert(agency_id, l, days, clock, n)>>)
         ELSE st

RECURSIVE LicenseLoop(_, _, _, _, _, _)
LicenseLoop(ls, st, agency_id, days, n, clock) ==
    IF ls = <<>> \/ st.outcome # "ok" THEN st
    ELSE LicenseLoop(Tail(ls), LicenseRecord(st, agency_id, days, Head(ls), n, clock),
                     agency_id, days, n, clock)

RECURSIVE LicenseSettingsLoop(_, _, _, _)
LicenseSettingsLoop(settings, st, n, clock) ==
    IF settings = <<>> \/ st.outcome # "ok" THEN st
    ELSE LicenseSettingsLoop(Tail(settings),
            LicenseLoop(licenses, st, Head(settings).id, Days(Reminder(Head(settings))),
                        n, clock),
            n, clock)

LicensePlan(n, clock) == LicenseSettingsLoop(agencySettings, Start, n, clock)

----------------------------------------------------------------------------
(* The BlockingScheduler of __main__: five jobs added with default options. *)
(* Its main loop hands every due job to the default executor, a pool of     *)
(* worker threads, and computes the job's next fire time; an invocation     *)
(* runs in a pool thread, and an exception it raises is caught and logged   *)
(* there.  A job runs in at most max_instances (default 1) invocations at a *)
(* time: a due run that finds one still executing is skipped.               *)

Jobs == {"check_grace_violations", "auto_clockout_expired_shifts",
         "send_activity_reminders", "detect_geofence_leaves",
         "send_license_reminders"}

IsCron(j) == j = "send_license_reminders"

\* add_job(..., "interval", minutes=...)
IntervalMinutes(j) ==
    CASE j = "check_grace_violations" -> 1
      [] j = "auto_clockout_expired_shifts" -> 15
      [] j = "send_activity_reminders" -> 15
      [] j = "detect_geofence_leaves" -> 10

\* add_job(..., "cron", hour=7): minute and second default to 0
CronMinute == 7 * 60
CronNext(t) == t + ((CronMinute - t) % DayMinutes)

FirstFire(j) == IF IsCron(j) THEN CronNext(StartTime) ELSE StartTime + IntervalMinutes(j)
NextFire(j, fired) == IF IsCron(j) THEN CronNext(fired + 1) ELSE fired + IntervalMinutes(j)

MaxInstances == 1

\* mutant: no limit on the invocations of one job
CanStart_Unlimited(j) == TRUE

CanStart(j) == Cardinality(instances[j]) < MaxInstances

Running == {j \in Jobs : instances[j] # {}}

\* the clock moves on once every due job has been processed
Advance ==
    /\ now < StartTime + Horizon
    /\ \A j \in Jobs : nextRun[j] > now
    /\ \A j \in Jobs : \A n \in instances[j] : now - n < MaxDuration
    /\ now' = now + 1
    /\ UNCHANGED <<nextRun, instances, lastOutcome, records, store, systemAlerts>>

\* the main loop on a due job: submit it to the executor (the invocation
\* reads utcnow() as it starts, and auto_clockout_expired_shifts gets the
\* open attendance records from its query) or skip the run, and reschedule
ProcessJob(j) ==
    /\ nextRun[j] <= now
    /\ instances' = [instances EXCEPT ![j] = IF CanStart(j) THEN @ \cup {now} ELSE @]
    /\ nextRun' = [nextRun EXCEPT ![j] = NextFire(j, @)]
    /\ records' = IF j = "auto_clockout_expired_shifts" /\ CanStart(j)
                  THEN OpenRecords ELSE records
    /\ UNCHANGED <<now, lastOutcome, store, systemAlerts>>

Plan(j, n, clock) ==
    CASE j = "check_grace_violations" -> GracePlan(n, clock)
      [] j = "auto_clockout_expired_shifts" -> ClockoutPlan(n, clock)
      [] j = "send_activity_reminders" -> ActivityPlan(n, clock)
      [] j = "detect_geofence_leaves" -> GeofencePlan(n, clock)
      [] j = "send_license_reminders" -> LicensePlan(n, clock)

\* the collection after the updates among the writes
RECURSIVE Updated(_, _, _)
Updated(coll, name, writes) ==
    IF writes = <<>> THEN coll
    ELSE LET w == Head(writes)
             next == IF w.op = "update" /\ w.coll = name
                     THEN [i \in 1..Len(coll) |->
                            IF coll[i].id = w.id THEN Update(coll[i], w.doc) ELSE coll[i]]
                     ELSE coll
         IN  Updated(next, name, Tail(writes))

Added(writes) ==
    LET adds == SelectSeq(writes, LAMBDA w : w.op = "add")
    IN  [i \in 1..Len(adds) |-> adds[i].doc]

\* mutant: an invocation that raised stays on the books
Release_UnlessRaised(j, n, outcome) ==
    IF outcome = "ok" THEN [instances EXCEPT ![j] = @ \ {n}] ELSE instances

\* the executor's books when an invocation ends: the worker catches and logs
\* what the job raised and releases the invocation as after a normal return
Release(j, n, outcome) == [instances EXCEPT ![j] = @ \ {n}]

Finish(j, n, writes, outcome) ==
    /\ attendance' = Updated(attendance, "attendance", writes)
    /\ shifts' = Updated(shifts, "shifts", writes)
    /\ systemAlerts' = systemAlerts \o Added(writes)
    /\ instances' = Release(j, n, outcome)
    /\ lastOutcome' = [lastOutcome EXCEPT ![j] = [run |-> n, result |-> outcome]]
    /\ records' = IF j = "auto_clockout_expired_shifts" THEN <<>> ELSE records
    /\ UNCHANGED <<now, nextRun, agencySettings, employees, sites, licenses>>

\* an invocation of job j runs to its end: to its last statement or to the
\* exception its data makes it raise
Run(j) ==
    \E n \in instances[j] :
        Finish(j, n, Plan(j, n, now).writes, Plan(j, n, now).outcome)

check_grace_violations == Run("check_grace_violations")
auto_clockout_expired_shifts == Run("auto_clockout_expired_shifts")
send_activity_reminders == Run("send_activity_reminders")
detect_geofence_leaves == Run("detect_geofence_leaves")
send_license_reminders == Run("send_license_reminders")

\* a store call of the invocation fails (unavailable, timeout): the
\* exception ends the invocation after the writes issued before it.  A
\* fault that leaves no write undone ends the invocation with the store as
\* its normal end leaves it, and is not told apart from that.
StoreFault(j) ==
    \E n \in instances[j] :
        \E k \in 0..(Len(Plan(j, n, now).writes) - 1) :
            Finish(j, n, SubSeq(Plan(j, n, now).writes, 1, k), "StoreFault")

Next ==
    \/ Advance
    \/ \E j \in Jobs : ProcessJob(j)
    \/ check_grace_violations
    \/ auto_clockout_expired_shifts
    \/ send_activity_reminders
    \/ detect_geofence_leaves
    \/ send_license_reminders
    \/ \E j \in Jobs : StoreFault(j)

\* the state after scheduler.start() over the store sc
InitWith(sc) ==
    /\ now = StartTime
    /\ nextRun = [j \in Jobs |-> FirstFire(j)]
    /\ instances = [j \in Jobs |-> {}]
    /\ lastOutcome = [j \in Jobs |-> [run |-> 0, result |-> "none"]]
    /\ records = <<>>
    /\ agencySettings = sc.agencySettings
    /\ shifts = sc.shifts
    /\ attendance = sc.attendance
    /\ employees = sc.employees
    /\ sites = sc.sites
    /\ licenses = sc.licenses
    /\ systemAlerts = <<>>

----------------------------------------------------------------------------
(* Stores the scheduler is started over.  Times are laid out around the    *)
(* first fire times: grace every minute, geofence at +10, +20, +30, auto   *)
(* clock-out and inactivity at +15 and +30, licenses at 07:00 (+10).       *)

T0 == StartTime
Empty == [agencySettings |-> <<>>, shifts |-> <<>>, attendance |-> <<>>,
          employees |-> <<>>, sites |-> <<>>, licenses |-> <<>>]

Shift(id, agency, emp, start, end) ==
    [id |-> id, agencyId |-> agency, employeeId |-> emp, siteId |-> "siteA",
     shiftStart |-> start, shiftEnd |-> end, status |-> "scheduled"]

Attendance(id, agency, shift, user, in) ==
    [id |-> id, agencyId |-> agency, shiftId |-> shift, userId |-> user,
     clockIn |-> in, clockOut |-> NoneVal, hoursWorked |-> NoneVal]

\* agency ag1 has a settings document, agency ag2 has none
GraceSettings ==
    {<<[id |-> "ag1", clockInGracePeriod |-> g]>> : g \in {0, 3}} \cup {<<[id |-> "ag1"]>>}

GraceStores ==
    {[Empty EXCEPT
        !.agencySettings = st,
        !.shifts = <<Shift("s1", "ag1", "e1", Ts(T0 + 25, TRUE), Ts(T0 + 500, TRUE)),
                     Shift("s2", "ag1", "e2", Ts(T0 + 24, FALSE), Ts(T0 + 500, TRUE)),
                     Shift("s3", "ag2", "e1", Ts(T0 - 60, TRUE), Ts(T0 + 500, TRUE))>>,
        !.attendance = <<Attendance("a2", "ag1", "s2", "e2", in)>>,
        !.employees = <<[id |-> "e1", agencyId |-> "ag1", name |-> "Bob"]>>]
     : st \in GraceSettings, in \in {NoneVal, Ts(T0 + 24, TRUE)}}

InitGrace == \E sc \in GraceStores : InitWith(sc)
SpecGrace == InitGrace /\ [][Next]_vars

\* auto clock-out: agency ag1 has it on, agency ag3 has a settings document
\* without the field.  Record a1 is the clock-in of 23:00 for the shift s1
\* that ended at 07:00; record a2 and its shift s2 vary, and a2 links to
\* s2, to s1 as well, to a shift that does not exist, or to none.
ClockoutRecords ==
    {<<a.agency, a.shift, a.in, a.end>> : a \in
        [agency : {"ag1", "ag3"}, shift : {"s1", "s2", "s9", NoneId},
         in : {Ts(T0 - 120, FALSE), Ts(T0 - 120, TRUE)},
         end : {Ts(T0 + 15, FALSE), Ts(T0 + 10, TRUE)}]}

ClockoutStores ==
    {[Empty EXCEPT
        !.agencySettings = <<[id |-> "ag1", autoClockOut |-> TRUE, clockInGracePeriod |-> 0],
                             [id |-> "ag3", clockInGracePeriod |-> 0]>>,
        !.shifts = <<Shift("s1", "ag1", "u1", Ts(T0 - 470, FALSE), Ts(T0 + 10, FALSE)),
                     Shift("s2", v[1], "u2", Ts(T0 - 200, FALSE), v[4])>>,
        !.attendance =
            LET a1 == Attendance("a1", "ag1", "s1", "u1", Ts(T0 - 470, FALSE))
                a2 == Attendance("a2", v[1], v[2], "u2", v[3])
            IN  IF first = 1 THEN <<a1, a2>> ELSE <<a2, a1>>]
     : v \in ClockoutRecords, first \in {1, 2}}

InitClockout == \E sc \in ClockoutStores : InitWith(sc)
SpecClockout == InitClockout /\ [][Next]_vars

\* inactivity: the employees of ag1 were last seen 31, 60 and 30 minutes
\* before the first run, one was never seen
Employee(id, agency, name, site, loc) ==
    [id |-> id, agencyId |-> agency, name |-> name, assignedsiteID |-> site,
     lastKnownLocation |-> loc]

Seen(lat, lng, at) == [lat |-> lat, lng |-> lng, updatedAt |-> at]

ActivitySettings ==
    {<<[id |-> "ag1", activityReportFrequency |-> f]>> :
        f \in {"OFF", "30min", "1hr", "weekly"}} \cup {<<[id |-> "ag1"]>>}

ActivityStores ==
    {[Empty EXCEPT
        !.agencySettings = st,
        !.employees = <<Employee("e1", "ag1", "Ann", NoneId, Seen(2, 2, Ts(T0 + 15 - 31, z))),
                        Employee("e2", "ag1", "Ben", NoneId, Seen(2, 2, Ts(T0 + 15 - 60, FALSE))),
                        Employee("e3", "ag1", "Cy", NoneId, Seen(2, 2, Ts(T0 + 15 - 30, FALSE))),
                        [id |-> "e4", agencyId |-> "ag1", name |-> "Di"]>>]
     : st \in ActivitySettings, z \in BOOLEAN}

InitActivity == \E sc \in ActivityStores : InitWith(sc)
SpecActivity == InitActivity /\ [][Next]_vars

\* geofence: site siteA is an L-shaped fence, siteB has two vertices only
Corner(lng, lat) == [lat |-> lat, lng |-> lng]
SiteA == [id |-> "siteA",
          coordinates |-> <<Corner(1, 1), Corner(5, 1), Corner(5, 3),
                            Corner(3, 3), Corner(3, 5), Corner(1, 5)>>]
SiteB == [id |-> "siteB", coordinates |-> <<Corner(1, 1), Corner(5, 1)>>]

\* <<lng, lat>>: inside, in the notch (outside), two vertices, on an edge,
\* outside with lat = 0
GeofencePoints == {<<2, 2>>, <<4, 4>>, <<3, 3>>, <<1, 1>>, <<3, 4>>, <<2, 0>>}

GeofenceSettings ==
    {<<[id |-> "ag1", activityReportFrequency |-> "OFF"]>>,
     <<[id |-> "ag1", activityReportFrequency |-> "OFF", geofenceTriggerDelay |-> 5]>>}

GeofenceStores ==
    {[Empty EXCEPT
        !.agencySettings = st,
        !.sites = <<SiteA, SiteB>>,
        !.employees = <<Employee("e1", "ag1", "Ann", "siteA", Seen(p[2], p[1], Ts(T0 + 10 - 11, z))),
                        Employee("e2", "ag2", "Ben", "siteA", Seen(6, 6, Ts(T0 + 10 - 5, FALSE))),
                        Employee("e3", "ag1", "Cy", "siteB", Seen(6, 6, Ts(T0 - 60, FALSE)))>>]
     : st \in GeofenceSettings, p \in GeofencePoints, z \in BOOLEAN}

InitGeofence == \E sc \in GeofenceStores : InitWith(sc)
SpecGeofence == InitGeofence /\ [][Next]_vars

\* licenses: the daily run is at 07:00, license l1 expires a number of whole
\* days after it, l2 a minute short of 8 days, l3 a minute short of 7 days
LicenseTick == CronNext(StartTime)

License(id, agency, emp, expiry) ==
    [id |-> id, agencyId |-> agency, employeeId |-> emp, expiryDate |-> expiry]

LicenseSettings ==
    {<<[id |-> "ag1", licenseExpiryReminder |-> r]>> :
        r \in {"1week", "2weeks", "1month", "3days"}} \cup {<<[id |-> "ag1"]>>}

LicenseStores ==
    {[Empty EXCEPT
        !.agencySettings = st,
        !.licenses = <<License("l1", "ag1", "e1", Ts(LicenseTick + d * DayMinutes, z)),
                       License("l2", "ag1", "e2", Ts(LicenseTick + 8 * DayMinutes - 1, FALSE)),
                       License("l3", "ag1", "e3", Ts(LicenseTick + 7 * DayMinutes - 1, FALSE)),
                       License("l4", "ag1", "e4", NoneVal)>>]
     : st \in LicenseSettings, d \in {6, 7, 8, 14, 30}, z \in BOOLEAN}

InitLicense == \E sc \in LicenseStores : InitWith(sc)
SpecLicense == InitLicense /\ [][Next]_vars

\* every evaluator at work: agency ag1 has a settings document without any
\* field, agency ag2 has none
MixedStore ==
    [agencySettings |-> <<[id |-> "ag1"]>>,
     shifts |-> <<Shift("s1", "ag1", "e1", Ts(T0 + 25, TRUE), Ts(T0 + 500, TRUE)),
                  Shift("s3", "ag2", "e2", Ts(T0 - 60, TRUE), Ts(T0 + 500, TRUE))>>,
     attendance |-> <<>>,
     employees |-> <<Employee("e1", "ag1", "Ann", "siteA", Seen(6, 6, Ts(T0 + 15, FALSE))),
                     Employee("e2", "ag2", "Ben", "siteA", Seen(6, 6, Ts(T0 + 15, FALSE))),
                     Employee("e4", "ag1", "Di", "siteA", Seen(6, 6, Ts(T0 + 20, FALSE))),
                     Employee("e5", "ag1", "Ed", NoneId, Seen(2, 2, Ts(T0 - 1, FALSE))),
                     Employee("e6", "ag1", "Flo", NoneId, Seen(2, 2, Ts(T0, FALSE))),
                     Employee("e7", "ag2", "Gil", NoneId, Seen(2, 2, Ts(T0 - 60, FALSE))),
                     Employee("e8", "ag1", "Hal", NoneId, Seen(2, 2, Ts(T0 - 60, TRUE)))>>,
     sites |-> <<SiteA>>,
     licenses |-> <<License("l1", "ag1", "e1", Ts(LicenseTick + 7 * DayMinutes, FALSE)),
                    License("l2", "ag2", "e2", Ts(LicenseTick + 7 * DayMinutes, FALSE)),
                    License("l3", "ag1", "e4", Ts(LicenseTick + 8 * DayMinutes, FALSE))>>]

Init == InitWith(MixedStore)
Spec == Init /\ [][Next]_vars

----------------------------------------------------------------------------
(* Properties.  Alerts(c) are the positions of the alerts of category c.   *)

Alerts(c) == {i \in 1..Len(systemAlerts) : systemAlerts[i].category = c}
AlertsAbout(c, id) == {i \in Alerts(c) : systemAlerts[i].about = id}
Ended(j) == lastOutcome[j].result # "none"
EndedOk(j) == lastOutcome[j].result = "ok"

\* the grace period in force for an agency that has a settings document
GraceOf(agency_id) ==
    LET s == Doc(agencySettings, agency_id)
    IN  IF "clockInGracePeriod" \in DOMAIN s THEN s.clockInGracePeriod ELSE DefaultGrace

ShiftOf(i) == Doc(shifts, systemAlerts[i].about)

\* C1: for a shift nobody clocked in for, no two late_clockin alerts are
\* created less than a grace period apart: within any window of the length
\* of the grace period the shift gets one alert, a later tick inside the
\* window suppresses its own.
C1_OneAlertPerWindow ==
    \A i, k \in Alerts("late_clockin") :
        (i < k /\ systemAlerts[i].about = systemAlerts[k].about)
            => systemAlerts[k].timestamp.t - systemAlerts[i].timestamp.t
                  >= GraceOf(systemAlerts[i].agencyId)

\* rows of the attendance collection for a shift
RowsOf(shift_id) == {i \in 1..Len(attendance) : attendance[i].shiftId = shift_id}
ClockedInRows(shift_id) == {i \in RowsOf(shift_id) : attendance[i].clockIn # NoneVal}

\* a late_clockin alert is raised only for an agency with a grace period
\* g > 0 and a shift started at or before now - g
GraceAlertDue(i) ==
    /\ Exists(agencySettings, systemAlerts[i].agencyId)
    /\ GraceOf(systemAlerts[i].agencyId) # 0
    /\ ShiftOf(i).agencyId = systemAlerts[i].agencyId
    /\ ShiftOf(i).shiftStart.t <= systemAlerts[i].run - GraceOf(systemAlerts[i].agencyId)

\* the shifts an invocation started at n has to look at
DueShifts(n) ==
    {i \in 1..Len(shifts) :
        /\ Exists(agencySettings, shifts[i].agencyId)
        /\ GraceOf(shifts[i].agencyId) > 0
        /\ shifts[i].shiftStart.t <= n - GraceOf(shifts[i].agencyId)}

----------------------------------------------------------------------------
(* auto_clockout_expired_shifts *)

Clockout == "auto_clockout_expired_shifts"
Closed(a) == a.clockOut # NoneVal

\* C2: once a record is closed no step changes it, raises another
\* auto_clockout alert for it, or updates its shift again on its account (the
\* shift changes only when another record of the same shift is closed in
\* that step); no record ever gets two auto_clockout alerts.
C2_ClosedRecordStep ==
    \A i \in 1..Len(attendance) :
        Closed(attendance[i]) =>
            /\ attendance'[i] = attendance[i]
            /\ AlertsAbout("auto_clockout", attendance[i].id)' =
                   AlertsAbout("auto_clockout", attendance[i].id)
            /\ \A s \in 1..Len(shifts) :
                  (shifts[s].id = attendance[i].shiftId /\ shifts'[s] # shifts[s])
                      => \E k \in 1..Len(attendance) :
                            /\ k # i
                            /\ attendance[k].shiftId = shifts[s].id
                            /\ ~Closed(attendance[k]) /\ Closed(attendance'[k])

Ends(j) == lastOutcome'[j] # lastOutcome[j]
EndsOk(j) == Ends(j) /\ lastOutcome'[j].result = "ok"
EndsInFault(j) == Ends(j) /\ lastOutcome'[j].result # "ok"

AutoClockOutOn(agency_id) ==
    \E k \in 1..Len(agencySettings) :
        /\ agencySettings[k].id = agency_id
        /\ "autoClockOut" \in DOMAIN agencySettings[k]
        /\ agencySettings[k].autoClockOut

\* the record is open, its agency has autoClockOut, its shift exists and
\* ended before n
ToClose(a, n) ==
    /\ ~Closed(a)
    /\ AutoClockOutOn(a.agencyId)
    /\ \E s \in 1..Len(shifts) : shifts[s].id = a.shiftId /\ n > shifts[s].shiftEnd.t

\* C3: an invocation started at n that ends without fault leaves every
\* record it had to close with clockOut = updatedAt = n, the record's shift
\* completed, and one auto_clockout alert raised for the record.
C3_FaultFreeRunStep ==
    EndsOk(Clockout) =>
        LET n == lastOutcome'[Clockout].run IN
        \A i \in 1..Len(attendance) :
            ToClose(attendance[i], n) =>
                /\ attendance'[i].clockOut = Ts(n, TRUE)
                /\ attendance'[i].updatedAt = Ts(n, TRUE)
                /\ \A s \in 1..Len(shifts) :
                      shifts[s].id = attendance[i].shiftId
                          => shifts'[s].status = "completed"
                /\ Cardinality(AlertsAbout("auto_clockout", attendance[i].id)') = 1
                /\ \A k \in AlertsAbout("auto_clockout", attendance[i].id)' :
                      systemAlerts'[k].run = n

\* C3: every step in which a fault-free invocation of
\* auto_clockout_expired_shifts ends has closed the records it had to close.
C3_FaultFreeRunCloses == [][C3_FaultFreeRunStep]_vars

\* the run of 07:05 over the shift that ended at 07:00 with clock-in 23:00
C3_Witness ==
    /\ EndedOk(Clockout)
    /\ lastOutcome[Clockout].run = T0 + 15
    /\ \E i \in 1..Len(attendance) :
          /\ attendance[i].id = "a1"
          /\ attendance[i].clockOut = Ts(T0 + 15, TRUE)
          /\ attendance[i].hoursWorked = 808
          /\ Doc(shifts, "s1").status = "completed"
          /\ Cardinality(AlertsAbout("auto_clockout", "a1")) = 1

----------------------------------------------------------------------------
(* the scheduler *)

IsFault(r) == r \notin {"none", "ok"}

\* the fire times the trigger of job j produces
OnCadence(j, t) ==
    IF IsCron(j) THEN t % DayMinutes = 7 * 60
    ELSE t > StartTime /\ (t - StartTime) % IntervalMinutes(j) = 0

\* C4: an invocation that ends in a fault takes nothing with it but itself:
\* every job keeps its next fire time and the other invocations go on; and
\* a job whose latest invocation ended in a fault (and that is not executing
\* a later one) is started again at its next fire time, which lies on its
\* cadence as does the one after.
C4_FaultStep ==
    \A j \in Jobs :
        /\ EndsInFault(j) =>
              /\ nextRun' = nextRun
              /\ instances'[j] = instances[j] \ {lastOutcome'[j].run}
              /\ \A k \in Jobs \ {j} : instances'[k] = instances[k]
        /\ (nextRun'[j] # nextRun[j] /\ IsFault(lastOutcome[j].result)
                /\ instances[j] = {}) =>
              /\ nextRun[j] = now /\ OnCadence(j, now)
              /\ now \in instances'[j]
              /\ nextRun'[j] > now /\ OnCadence(j, nextRun'[j])

\* C4: a fault in one invocation does not stop the scheduler: every step
\* is as above, and every job always has a next fire time on its cadence.
C4_FaultDoesNotStopScheduler ==
    /\ [][C4_FaultStep]_vars
    /\ [](\A j \in Jobs : nextRun[j] >= now /\ OnCadence(j, nextRun[j]))

\* an evaluator is running again after its invocation ended in a fault, and
\* another evaluator has run since
C4_Witness ==
    \E j \in Jobs :
        /\ IsFault(lastOutcome[j].result)
        /\ \E m \in instances[j] : m > lastOutcome[j].run
        /\ \E k \in Jobs \ {j} : Ended(k) /\ lastOutcome[k].run > lastOutcome[j].run

----------------------------------------------------------------------------
(* defaults, thresholds *)

HasSettings(agency_id) == \E k \in 1..Len(agencySettings) : agencySettings[k].id = agency_id
Lacks(agency_id, field) ==
    \E k \in 1..Len(agencySettings) :
        agencySettings[k].id = agency_id /\ field \notin DOMAIN agencySettings[k]
Has(agency_id, field, value) ==
    \E k \in 1..Len(agencySettings) :
        /\ agencySettings[k].id = agency_id
        /\ field \in DOMAIN agencySettings[k]
        /\ agencySettings[k][field] = value

EmployeeOf(i) == Doc(employees, systemAlerts[i].about)
LicenseOf(i) == Doc(licenses, systemAlerts[i].about)
LastSeen(e) == e.lastKnownLocation.updatedAt.t
Located(e) == "lastKnownLocation" \in DOMAIN e /\ "updatedAt" \in DOMAIN e.lastKnownLocation
WholeDays(l, n) == (l.expiryDate.t - n) \div (24 * 60)
NoStoreFault(j) == Ended(j) /\ lastOutcome[j].result # "StoreFault"
RaisedBy(c, id, n) == {i \in AlertsAbout(c, id) : systemAlerts[i].run = n}

\* the vertices of the fence an employee is assigned to
Vertices(e) ==
    LET cs == Doc(sites, e.assignedsiteID).coordinates
    IN  {<<cs[k].lng, cs[k].lat>> : k \in 1..Len(cs)}
Position(e) == <<e.lastKnownLocation.lng, e.lastKnownLocation.lat>>
Outside(e) == Position(e) \in {<<4, 4>>, <<6, 6>>, <<2, 0>>}

\* C7 as claimed: an agency without settings document is evaluated with the
\* defaults: after an invocation that ended without fault, its shifts 5
\* minutes late, its employees unseen for over 30 minutes, its licenses 7
\* days from expiry and its employees outside the fence and unseen for over
\* 10 minutes have their alert.
C7_MissingDocumentUsesDefaults ==
    /\ EndedOk("check_grace_violations") =>
          \A k \in 1..Len(shifts) :
              (/\ ~HasSettings(shifts[k].agencyId)
               /\ RowsOf(shifts[k].id) = {}
               /\ shifts[k].shiftStart.t <= lastOutcome["check_grace_violations"].run - 5)
                  => AlertsAbout("late_clockin", shifts[k].id) # {}
    /\ EndedOk("send_activity_reminders") =>
          \A k \in 1..Len(employees) :
              (/\ ~HasSettings(employees[k].agencyId)
               /\ Located(employees[k])
               /\ lastOutcome["send_activity_reminders"].run - LastSeen(employees[k]) > 30)
                  => AlertsAbout("inactivity", employees[k].id) # {}
    /\ EndedOk("send_license_reminders") =>
          \A k \in 1..Len(licenses) :
              (/\ ~HasSettings(licenses[k].agencyId)
               /\ WholeDays(licenses[k], lastOutcome["send_license_reminders"].run) = 7)
                  => AlertsAbout("license", licenses[k].id) # {}
    /\ EndedOk("detect_geofence_leaves") =>
          \A k \in 1..Len(employees) :
              (/\ ~HasSettings(employees[k].agencyId)
               /\ employees[k].assignedsiteID # NoneId
               /\ Outside(employees[k])
               /\ lastOutcome["detect_geofence_leaves"].run - LastSeen(employees[k]) > 10)
                  => AlertsAbout("geofence_leave", employees[k].id) # {}

\* C7, amended: the defaults stand in for a field missing from the agency's
\* settings document.  Grace, inactivity and license alerts are raised only
\* for agencies that have a document, and where the field is missing by
\* grace 5 minutes, threshold 30 minutes, 7 days; geofence alerts of an
\* agency without document or without the field are raised by delay 10.
C7_DefaultsForMissingField ==
    /\ \A i \in Alerts("late_clockin") :
          /\ HasSettings(systemAlerts[i].agencyId)
          /\ Lacks(systemAlerts[i].agencyId, "clockInGracePeriod")
                => ShiftOf(i).shiftStart.t <= systemAlerts[i].run - 5
    /\ \A i \in Alerts("inactivity") :
          /\ HasSettings(systemAlerts[i].agencyId)
          /\ Lacks(systemAlerts[i].agencyId, "activityReportFrequency")
                => systemAlerts[i].run - LastSeen(EmployeeOf(i)) > 30
    /\ \A i \in Alerts("license") :
          /\ HasSettings(systemAlerts[i].agencyId)
          /\ Lacks(systemAlerts[i].agencyId, "licenseExpiryReminder")
                => WholeDays(LicenseOf(i), systemAlerts[i].run) = 7
    /\ \A i \in Alerts("geofence_leave") :
          (\/ ~HasSettings(systemAlerts[i].agencyId)
           \/ Lacks(systemAlerts[i].agencyId, "geofenceTriggerDelay"))
                => systemAlerts[i].run - LastSeen(EmployeeOf(i)) > 10

\* every evaluator has raised an alert by a default for the agency whose
\* document has no fields, the geofence one also for the agency without
\* document, whose late shift, unseen employee and expiring license went
\* through the other three evaluators without alert
C7_Witness ==
    /\ \E i \in Alerts("late_clockin") : Lacks(systemAlerts[i].agencyId, "clockInGracePeriod")
    /\ \E i \in Alerts("inactivity") : Lacks(systemAlerts[i].agencyId, "activityReportFrequency")
    /\ \E i \in Alerts("license") : Lacks(systemAlerts[i].agencyId, "licenseExpiryReminder")
    /\ \E i \in Alerts("geofence_leave") : Lacks(systemAlerts[i].agencyId, "geofenceTriggerDelay")
    /\ \E i \in Alerts("geofence_leave") : ~HasSettings(systemAlerts[i].agencyId)
    /\ ~HasSettings("ag2")
    /\ AlertsAbout("late_clockin", "s3") = {}
    /\ AlertsAbout("inactivity", "e7") = {}
    /\ AlertsAbout("license", "l2") = {}

\* the agency's license threshold in days
ThresholdDays(agency_id) ==
    IF Has(agency_id, "licenseExpiryReminder", "2weeks") THEN 14
    ELSE IF Has(agency_id, "licenseExpiryReminder", "1month") THEN 30
    ELSE 7

\* C8: once the daily invocation has ended (no store fault), a license of
\* an agency has its alert exactly when the whole days from now to its
\* expiry date are the agency's threshold.
C8_AlertExactlyOnDayMatch ==
    NoStoreFault("send_license_reminders") =>
        \A k \in 1..Len(licenses) :
            (HasSettings(licenses[k].agencyId) /\ licenses[k].expiryDate # NoneVal) =>
                (RaisedBy("license", licenses[k].id, lastOutcome["send_license_reminders"].run) # {}
                    <=> WholeDays(licenses[k], lastOutcome["send_license_reminders"].run)
                            = ThresholdDays(licenses[k].agencyId))

\* the agency's inactivity threshold in minutes
ThresholdMinutes(agency_id) ==
    IF Has(agency_id, "activityReportFrequency", "1hr") THEN 60
    ELSE IF Has(agency_id, "activityReportFrequency", "2hr") THEN 120
    ELSE 30

\* C9: once an invocation has ended (no store fault), an employee with a
\* last update has an alert from it exactly when the agency's frequency is
\* not OFF and the update is older than the threshold.
C9_AlertExactlyWhenStale ==
    NoStoreFault("send_activity_reminders") =>
        \A k \in 1..Len(employees) :
            (HasSettings(employees[k].agencyId) /\ Located(employees[k])) =>
                (RaisedBy("inactivity", employees[k].id, lastOutcome["send_activity_reminders"].run) # {}
                    <=> /\ ~Has(employees[k].agencyId, "activityReportFrequency", "OFF")
                        /\ lastOutcome["send_activity_reminders"].run - LastSeen(employees[k])
                              > ThresholdMinutes(employees[k].agencyId))

\* C10: no geofence_leave alert is raised for an employee located on a
\* vertex of the assigned site's polygon.
C10_VertexCountsAsInside ==
    \A i \in Alerts("geofence_leave") : Position(EmployeeOf(i)) \notin Vertices(EmployeeOf(i))

----------------------------------------------------------------------------
(* detect_geofence_leaves *)

Geofence == "detect_geofence_leaves"
HasLatLng(e) ==
    /\ "lastKnownLocation" \in DOMAIN e
    /\ e.lastKnownLocation # NoneVal
    /\ {"lat", "lng"} \subseteq DOMAIN e.lastKnownLocation

\* the employee has a site that exists and has a polygon
Fenced(e) ==
    /\ Get(e, "assignedsiteID", NoneId) # NoneId
    /\ Exists(sites, e.assignedsiteID)
    /\ Len(Get(Doc(sites, e.assignedsiteID), "coordinates", <<>>)) >= 3

Fence(e) == Ring(Doc(sites, e.assignedsiteID).coordinates)
Exterior(e) ==
    /\ ~InInterior(Fence(e), Pt(e.lastKnownLocation))
    /\ ~OnBoundary(Fence(e), Pt(e.lastKnownLocation))

\* C11: once an invocation of detect_geofence_leaves has ended (no store
\* fault), an employee has a geofence_leave alert from it only if they have
\* a site with a polygon, a location with lat and lng that is not in the
\* polygon's interior, and an update older than the agency's delay, and the
\* alert names the site; and every employee with lat and lng (0 included)
\* outside the polygon whose update is older than the delay has the alert.
C11_AlertExactlyWhenOutsideAndStale ==
    NoStoreFault(Geofence) =>
        LET n == lastOutcome[Geofence].run IN
        \A k \in 1..Len(employees) :
            LET e == employees[k] IN
            /\ \A i \in RaisedBy("geofence_leave", e.id, n) :
                  /\ HasLatLng(e) /\ Fenced(e)
                  /\ ~InInterior(Fence(e), Pt(e.lastKnownLocation))
                  /\ n - LastSeen(e) > LeaveTime(e.agencyId)
                  /\ systemAlerts[i].siteId = e.assignedsiteID
            /\ (/\ HasLatLng(e) /\ Fenced(e) /\ Exterior(e)
                /\ Located(e)
                /\ n - LastSeen(e) > LeaveTime(e.agencyId))
                  => RaisedBy("geofence_leave", e.id, n) # {}

----------------------------------------------------------------------------
(* hours worked *)

\* minutes between clock-in and clock-out of a closed record
MinutesWorked(a) == a.clockOut.t - a.clockIn.t

\* C12: a closed record's hoursWorked is the time from clockIn to clockOut
\* in hours rounded to 2 decimals: in hundredths of an hour it is the integer
\* nearest to 100 * minutes / 60, so it differs from 5 * minutes / 3 by less
\* than a half.
C12_HoursRoundedToTwoDecimals ==
    \A i \in 1..Len(attendance) :
        Closed(attendance[i]) =>
            /\ 3 * attendance[i].hoursWorked - 5 * MinutesWorked(attendance[i]) <= 1
            /\ 5 * MinutesWorked(attendance[i]) - 3 * attendance[i].hoursWorked <= 1

\* 150 minutes closed as 2.5 and 485 minutes closed as 8.08
C12_Witness ==
    /\ \E i \in 1..Len(attendance) :
          /\ Closed(attendance[i])
          /\ MinutesWorked(attendance[i]) = 150 /\ attendance[i].hoursWorked = 250
    /\ \E i \in 1..Len(attendance) :
          /\ Closed(attendance[i])
          /\ MinutesWorked(attendance[i]) = 485 /\ attendance[i].hoursWorked = 808

----------------------------------------------------------------------------
(* store faults between the writes of auto_clockout_expired_shifts *)

\* C13: once a later invocation of auto_clockout_expired_shifts has ended
\* without fault, every closed record has its shift completed and an
\* auto_clockout alert: what an invocation cut short by a store fault left
\* undone has been made up for.
C13_LaterTickCompletes ==
    EndedOk(Clockout) =>
        \A i \in 1..Len(attendance) :
            Closed(attendance[i]) =>
                /\ Doc(shifts, attendance[i].shiftId).status = "completed"
                /\ AlertsAbout("auto_clockout", attendance[i].id) # {}

----------------------------------------------------------------------------
(* malformed records: in every collection a malformed record comes first    *)
(* and a well-formed one that is due comes after it                         *)

\* a timestamp string that fromisoformat cannot parse
Unparseable == [text |-> "n/a"]

Without(doc, field) == [k \in DOMAIN doc \ {field} |-> doc[k]]

\* the malformed timestamp of a document: the field is missing, holds an
\* unparseable string or holds null
Malformed(doc, field, kind) ==
    CASE kind = "missing" -> Without(doc, field)
      [] kind = "unparseable" -> [doc EXCEPT ![field] = Unparseable]
      [] kind = "null" -> [doc EXCEPT ![field] = NoneVal]

MalformedKinds == {"missing", "unparseable", "null"}

MalformedStores ==
    {[agencySettings |-> <<[id |-> "ag1", autoClockOut |-> TRUE, clockInGracePeriod |-> 0]>>,
      shifts |-> <<IF where = "shiftEnd"
                   THEN Malformed(Shift("s1", "ag1", "u1", Ts(T0 - 470, FALSE), Ts(T0 + 10, FALSE)),
                                  "shiftEnd", kind)
                   ELSE Shift("s1", "ag1", "u1", Ts(T0 - 470, FALSE), Ts(T0 + 10, FALSE)),
                   Shift("s2", "ag1", "u2", Ts(T0 - 200, FALSE), Ts(T0 + 20, FALSE))>>,
      attendance |-> <<IF where = "clockIn"
                       THEN Malformed(Attendance("a1", "ag1", "s1", "u1", Ts(T0 - 470, FALSE)),
                                      "clockIn", kind)
                       ELSE Attendance("a1", "ag1", "s1", "u1", Ts(T0 - 470, FALSE)),
                       Attendance("a2", "ag1", "s2", "u2", Ts(T0 - 120, FALSE))>>,
      employees |-> <<IF where = "location"
                      THEN Employee("e1", "ag1", "Ann", "siteA",
                                    Without(Seen(6, 6, Ts(T0 - 60, FALSE)), "lat"))
                      ELSE Employee("e1", "ag1", "Ann", "siteA",
                                    Malformed(Seen(6, 6, Ts(T0 - 60, FALSE)), "updatedAt", kind)),
                      Employee("e2", "ag1", "Ben", NoneId, Seen(6, 6, Ts(T0 - 10, FALSE))),
                      Employee("e3", "ag1", "Cy", "siteA", Seen(6, 6, Ts(T0 + 15, FALSE)))>>,
      sites |-> <<SiteA>>,
      licenses |-> <<Malformed(License("l1", "ag1", "e1", Ts(LicenseTick + 7 * DayMinutes, FALSE)),
                               "expiryDate", kind),
                     License("l2", "ag1", "e2", Ts(LicenseTick + 7 * DayMinutes, FALSE))>>]
     : kind \in MalformedKinds, where \in {"shiftEnd", "clockIn", "location"}}

InitMalformed == \E sc \in MalformedStores : InitWith(sc)
SpecMalformed == InitMalformed /\ [][Next]_vars

WellFormed(doc, field) == field \in DOMAIN doc /\ IsTs(doc[field]) /\ ~doc[field].z

\* C14: no invocation ends in the fault of a malformed record, and once an
\* invocation has ended (no store fault) the well-formed records that were
\* due have been served: the record to close is closed, the inactive
\* employee, the employee outside the fence and the license 7 days from
\* expiry have their alert from that invocation (the agencies of these
\* records use the default thresholds).
C14_MalformedRecordSkipped ==
    /\ \A j \in Jobs : lastOutcome[j].result \notin {"KeyError", "ValueError", "AttributeError"}
    /\ NoStoreFault(Clockout) =>
          \A i \in 1..Len(attendance) :
              (/\ WellFormed(attendance[i], "clockIn")
               /\ Exists(shifts, attendance[i].shiftId)
               /\ WellFormed(Doc(shifts, attendance[i].shiftId), "shiftEnd")
               /\ AutoClockOutOn(attendance[i].agencyId)
               /\ lastOutcome[Clockout].run > Doc(shifts, attendance[i].shiftId).shiftEnd.t)
                  => Closed(attendance[i])
    /\ \A k \in 1..Len(employees) :
          (/\ "lat" \in DOMAIN employees[k].lastKnownLocation
           /\ WellFormed(employees[k].lastKnownLocation, "updatedAt")) =>
              /\ (/\ NoStoreFault("send_activity_reminders")
                  /\ lastOutcome["send_activity_reminders"].run - LastSeen(employees[k])
                        > DefaultInterval)
                    => RaisedBy("inactivity", employees[k].id,
                                lastOutcome["send_activity_reminders"].run) # {}
              /\ (/\ NoStoreFault(Geofence)
                  /\ Fenced(employees[k]) /\ Exterior(employees[k])
                  /\ lastOutcome[Geofence].run - LastSeen(employees[k]) > DefaultDelay)
                    => RaisedBy("geofence_leave", employees[k].id, lastOutcome[Geofence].run) # {}
    /\ NoStoreFault("send_license_reminders") =>
          \A k \in 1..Len(licenses) :
              (/\ WellFormed(licenses[k], "expiryDate")
               /\ WholeDays(licenses[k], lastOutcome["send_license_reminders"].run) = DefaultDays)
                  => RaisedBy("license", licenses[k].id, lastOutcome["send_license_reminders"].run) # {}

----------------------------------------------------------------------------
(* timestamps with a zone suffix *)

\* C15: no invocation of an evaluator ends in the TypeError of a comparison
\* or subtraction between utcnow() and a stored timestamp: the comparisons
\* yield a result whatever the suffix of the stored string.
C15_ComparisonsYieldResult ==
    \A j \in Jobs : lastOutcome[j].result # "TypeError"

----------------------------------------------------------------------------
(* records auto_clockout_expired_shifts has to leave alone *)

NoShift(a) == Get(a, "shiftId", NoneId) = NoneId
ShiftMissing(a) == ~NoShift(a) /\ ~Exists(shifts, a.shiftId)

\* the record's agency is not enabled, the record has no shift, its shift
\* does not exist
Skipped(a) == ~AutoClockOutOn(a.agencyId) \/ NoShift(a) \/ ShiftMissing(a)

\* ... or the invocation's now is not after the shift's end
LeftAlone(a, n) == Skipped(a) \/ n <= Doc(shifts, a.shiftId).shiftEnd.t

\* the record is closed in this step
Closes(k) == ~Closed(attendance[k]) /\ Closed(attendance'[k])

C16_SkippedRecordStep ==
    /\ \A i \in 1..Len(attendance) :
          (\/ attendance'[i] # attendance[i]
           \/ AlertsAbout("auto_clockout", attendance[i].id)' #
                  AlertsAbout("auto_clockout", attendance[i].id))
              => /\ Ends(Clockout)
                 /\ ~LeftAlone(attendance[i], lastOutcome'[Clockout].run)
    /\ \A s \in 1..Len(shifts) :
          shifts'[s] # shifts[s]
              => \E k \in 1..Len(attendance) :
                    /\ attendance[k].shiftId = shifts[s].id
                    /\ ~LeftAlone(attendance[k], lastOutcome'[Clockout].run)
                    /\ Closed(attendance'[k])
    /\ (Ends(Clockout) /\ lastOutcome'[Clockout].result # "StoreFault") =>
          \A k \in 1..Len(attendance) :
              (/\ ToClose(attendance[k], lastOutcome'[Clockout].run)
               /\ WellFormed(attendance[k], "clockIn")
               /\ WellFormed(Doc(shifts, attendance[k].shiftId), "shiftEnd")
               /\ \A i \in 1..(k - 1) : Closed(attendance[i]) \/ Skipped(attendance[i]))
                  => Closes(k)

----------------------------------------------------------------------------
(* send_activity_reminders, tick after tick *)

Activity == "send_activity_reminders"

\* the employee's inactivity condition at time n
Inactive(e, n) ==
    /\ HasSettings(e.agencyId)
    /\ ~Has(e.agencyId, "activityReportFrequency", "OFF")
    /\ Located(e)
    /\ n - LastSeen(e) > ThresholdMinutes(e.agencyId)

C17_TickStep ==
    (Ends(Activity) /\ lastOutcome'[Activity].result # "StoreFault") =>
        \A k \in 1..Len(employees) :
            Inactive(employees[k], lastOutcome'[Activity].run) =>
                Cardinality(AlertsAbout("inactivity", employees[k].id)') =
                    Cardinality(AlertsAbout("inactivity", employees[k].id)) + 1

\* C17: every invocation of send_activity_reminders (no store fault) adds
\* one inactivity alert for each employee whose inactivity condition holds,
\* whatever alerts the employee already has.
C17_EveryTickEmits == [][C17_TickStep]_vars

----------------------------------------------------------------------------
(* the write footprint.  A store in which every evaluator has something to  *)
(* write in the second half hour: a shift 5 minutes late at +30, a record   *)
(* to close at +30, an employee unseen for over 30 minutes at +30 and one   *)
(* outside the fence for over 10 minutes at +30, a license 7 days from      *)
(* expiry at 07:00.                                                         *)

FrameStore ==
    [agencySettings |-> <<[id |-> "ag1", autoClockOut |-> TRUE]>>,
     shifts |-> <<Shift("s0", "ag1", "e1", Ts(T0 - 470, FALSE), Ts(T0 + 20, FALSE)),
                  Shift("s1", "ag1", "e2", Ts(T0 + 25, TRUE), Ts(T0 + 500, TRUE))>>,
     attendance |-> <<Attendance("a0", "ag1", "s0", "e1", Ts(T0 - 470, FALSE))>>,
     employees |-> <<Employee("e1", "ag1", "Ann", NoneId, Seen(2, 2, Ts(T0 - 10, FALSE))),
                     Employee("e2", "ag1", "Ben", "siteA", Seen(6, 6, Ts(T0 + 15, FALSE)))>>,
     sites |-> <<SiteA>>,
     licenses |-> <<License("l1", "ag1", "e1", Ts(LicenseTick + 7 * DayMinutes, FALSE))>>]

InitFrame == InitWith(FrameStore)
SpecFrame == InitFrame /\ [][Next]_vars

Ids(coll) == [i \in 1..Len(coll) |-> coll[i].id]

\* the document changed in the given fields at most
ChangedOnly(old, new, fields) ==
    /\ DOMAIN old \subseteq DOMAIN new
    /\ DOMAIN new \subseteq DOMAIN old \cup fields
    /\ \A f \in DOMAIN old \ fields : new[f] = old[f]

C18_FrameStep ==
    /\ Len(systemAlerts') >= Len(systemAlerts)
    /\ SubSeq(systemAlerts', 1, Len(systemAlerts)) = systemAlerts
    /\ \A i \in (Len(systemAlerts) + 1)..Len(systemAlerts') : systemAlerts'[i].read = FALSE
    /\ Ids(attendance') = Ids(attendance)
    /\ Ids(shifts') = Ids(shifts)
    /\ UNCHANGED <<employees, sites, licenses, agencySettings>>
    /\ (attendance' # attendance \/ shifts' # shifts) => Ends(Clockout)
    /\ \A i \in 1..Len(attendance) :
          attendance'[i] # attendance[i] =>
              /\ Closes(i)
              /\ ChangedOnly(attendance[i], attendance'[i],
                             {"clockOut", "hoursWorked", "updatedAt"})
    /\ \A s \in 1..Len(shifts) :
          shifts'[s] # shifts[s] =>
              /\ ChangedOnly(shifts[s], shifts'[s], {"status", "updatedAt"})
              /\ \E k \in 1..Len(attendance) :
                    /\ attendance[k].shiftId = shifts[s].id
                    /\ attendance'[k].clockOut = Ts(lastOutcome'[Clockout].run, TRUE)

\* C18: in every step the alerts already there stay as they are and the new
\* ones are unread, no attendance record or shift comes or goes, employees,
\* sites, licenses and settings stay as they are, and attendance records and
\* shifts change only at the end of an invocation of
\* auto_clockout_expired_shifts: the record it closes (clockOut,
\* hoursWorked, updatedAt) and that record's shift (status, updatedAt).
C18_WriteFootprint == [][C18_FrameStep]_vars

\* all five evaluators have raised alerts, the record is closed and its
\* shift completed
C18_Witness ==
    /\ \A c \in {"late_clockin", "auto_clockout", "inactivity", "geofence_leave", "license"} :
          Alerts(c) # {}
    /\ Closed(attendance[1])
    /\ shifts[1].status = "completed"

----------------------------------------------------------------------------
(* a writer outside the engine: the employee clocks out, at any time, also  *)
(* between the query of auto_clockout_expired_shifts and its update         *)

ExternalClockOut ==
    /\ \E i \in 1..Len(attendance) :
          /\ attendance[i].clockOut = NoneVal
          /\ attendance' = [attendance EXCEPT ![i] =
                Update(@, [clockOut |-> Ts(now, TRUE),
                           hoursWorked |-> HoursWorked(now - @.clockIn.t),
                           updatedAt |-> Ts(now, TRUE),
                           clockOutBy |-> "user"])]
    /\ UNCHANGED <<now, nextRun, instances, lastOutcome, records, agencySettings,
                   shifts, employees, sites, licenses, systemAlerts>>

NextRace == Next \/ ExternalClockOut

RaceStore ==
    [Empty EXCEPT
        !.agencySettings = <<[id |-> "ag1", autoClockOut |-> TRUE, clockInGracePeriod |-> 0]>>,
        !.shifts = <<Shift("s1", "ag1", "u1", Ts(T0 - 470, FALSE), Ts(T0 + 10, FALSE))>>,
        !.attendance = <<Attendance("a1", "ag1", "s1", "u1", Ts(T0 - 470, FALSE))>>]

InitRace == InitWith(RaceStore)
SpecRace == InitRace /\ [][NextRace]_vars

C19_KeptStep ==
    \A i \in 1..Len(attendance) :
        Closed(attendance[i]) =>
            /\ attendance'[i].clockOut = attendance[i].clockOut
            /\ attendance'[i].hoursWorked = attendance[i].hoursWorked
            /\ AlertsAbout("auto_clockout", attendance[i].id)' =
                   AlertsAbout("auto_clockout", attendance[i].id)

\* C19 as claimed: no step overwrites the clockOut or hoursWorked of a
\* record that is closed, by whomever, or raises an auto_clockout alert for
\* it.
C19_ExternalClockOutKept == [][C19_KeptStep]_vars

Queried(id) == \E r \in 1..Len(records) : records[r].id = id

C19_QueryStep ==
    Ends(Clockout) =>
        /\ \A i \in 1..Len(attendance) :
              (\/ attendance'[i] # attendance[i]
               \/ AlertsAbout("auto_clockout", attendance[i].id)' #
                      AlertsAbout("auto_clockout", attendance[i].id))
                  => Queried(attendance[i].id)
        /\ EndsOk(Clockout) =>
              \A r \in 1..Len(records) :
                  ToClose(records[r], lastOutcome'[Clockout].run) =>
                      \A i \in 1..Len(attendance) :
                          attendance[i].id = records[r].id =>
                              /\ attendance'[i].clockOut =
                                     Ts(lastOutcome'[Clockout].run, TRUE)
                              /\ attendance'[i].hoursWorked =
                                     HoursWorked(lastOutcome'[Clockout].run
                                                    - records[r].clockIn.t)
                              /\ Cardinality(AlertsAbout("auto_clockout", attendance[i].id)') =
                                     Cardinality(AlertsAbout("auto_clockout", attendance[i].id)) + 1

\* what the code does instead: an invocation writes and alerts only for
\* records its query returned, that is, records whose clockOut was null at
\* the time of the query; and one that ends without fault closes every such
\* record that is due with its own now, whatever has been written to the
\* record since.
C19_WritesWhatTheQueryReturned == [][C19_QueryStep]_vars

\* a record the employee clocked out of has been overwritten by an
\* invocation that began before, and has an auto_clockout alert
C19_Overwritten ==
    \E i \in 1..Len(attendance) :
        /\ "clockOutBy" \in DOMAIN attendance[i]
        /\ EndedOk(Clockout)
        /\ attendance[i].clockOut = Ts(lastOutcome[Clockout].run, TRUE)
        /\ attendance[i].updatedAt = Ts(lastOutcome[Clockout].run, TRUE)
        /\ AlertsAbout("auto_clockout", attendance[i].id) # {}

----------------------------------------------------------------------------
(* The daily trigger over several days.  The main loop sleeps until the     *)
(* next fire time; over a store that holds settings and licenses only, the  *)
(* runs of the four interval jobs between two daily fire times read nothing *)
(* they act on and end without a write, so the clock is moved to the next   *)
(* 07:00 in one step, the interval jobs being due again from there on.      *)

LicenseJob == "send_license_reminders"

\* the first fire time of interval job j at or after t
IntervalNext(j, t) == t + ((StartTime - t) % IntervalMinutes(j))

AdvanceDay ==
    /\ nextRun[LicenseJob] < StartTime + MaxDays * DayMinutes
    /\ \A j \in Jobs : nextRun[j] > now /\ instances[j] = {}
    /\ shifts = <<>> /\ attendance = <<>> /\ employees = <<>>
    /\ now' = nextRun[LicenseJob]
    /\ nextRun' = [j \in Jobs |->
                      IF IsCron(j) THEN nextRun[j] ELSE IntervalNext(j, nextRun[LicenseJob])]
    /\ lastOutcome' = [j \in Jobs |->
                          IF IsCron(j) \/ IntervalNext(j, nextRun[LicenseJob]) = nextRun[j]
                          THEN lastOutcome[j]
                          ELSE [run |-> IntervalNext(j, nextRun[LicenseJob]) - IntervalMinutes(j),
                                result |-> "ok"]]
    /\ UNCHANGED <<instances, records, store, systemAlerts>>

NextDaily == Next \/ AdvanceDay

\* licenses that expire 7, 8, 14 or 15 days after the first daily tick, at
\* 07:00 sharp, a minute later or a minute before the next day's tick; a
\* second agency with a license of its own
DailyStores ==
    {[Empty EXCEPT
        !.agencySettings = <<s1, [id |-> "ag2", licenseExpiryReminder |-> "1week"]>>,
        !.licenses = <<License("l1", "ag1", "e1", Ts(LicenseTick + d * DayMinutes + x, FALSE)),
                       License("l2", "ag2", "e2", Ts(LicenseTick + 9 * DayMinutes - 1, z))>>]
     : s1 \in {[id |-> "ag1"], [id |-> "ag1", licenseExpiryReminder |-> "2weeks"]},
       d \in {7, 8, 14, 15}, x \in {0, 1, DayMinutes - 1}, z \in BOOLEAN}

InitDaily == \E sc \in DailyStores : InitWith(sc)
SpecDaily == InitDaily /\ [][NextDaily]_vars

\* C20: with the evaluator invoked at 07:00 of every day and settings and
\* licenses unchanged, no license ever has more than one license alert.
C20_AtMostOneAlertPerLicense ==
    \A i \in 1..Len(licenses) :
        Cardinality(AlertsAbout("license", licenses[i].id)) <= 1

\* a license got its alert on one daily tick, and the invocation of a later
\* day, the license not yet expired, ended without fault and without a
\* second alert for it
C20_Witness ==
    \E i \in 1..Len(licenses) :
        /\ Cardinality(AlertsAbout("license", licenses[i].id)) = 1
        /\ EndedOk(LicenseJob)
        /\ licenses[i].expiryDate.t >= lastOutcome[LicenseJob].run
        /\ \A k \in AlertsAbout("license", licenses[i].id) :
              lastOutcome[LicenseJob].run >= systemAlerts[k].run + DayMinutes

====
